---- MODULE Spec2Model ----
(***************************************************************************)
(* The search filter of the Model documentation panel                      *)
(* (packages/elements-core/src/components/Docs/Model/Model.tsx).           *)
(*                                                                         *)
(* The component keeps three state cells (filteredModel, searchValue,      *)
(* expandDepth) and one effect, which re-runs whenever searchValue or the  *)
(* data prop changes.  The effect deep-copies the schema, filters the      *)
(* top-level `properties` with filterSchema when the query is longer than  *)
(* one character, and stores the result and the expansion depth.           *)
(*                                                                         *)
(* JavaScript values are records tagged by `k`.  Strings are sequences of  *)
(* one-character strings, so that String.prototype.includes is a real      *)
(* substring test.  A JavaScript object used as a map (`properties`, the   *)
(* `filtered` accumulator) is a sequence of [key, value] entries in        *)
(* Object.entries order.  Objects that the code writes into live in `heap` *)
(* and are named by references, so that aliasing is observable.            *)
(***************************************************************************)
EXTENDS Naturals, Sequences, FiniteSets, TLC

VARIABLES
  heap,           \* reference -> object: "src" is the object behind the data prop,
                  \* "copy" the object made by the latest JSON.parse(JSON.stringify(..))
  filteredModel,  \* state cell: a reference into heap
  searchValue,    \* state cell: the query string
  expandDepth,    \* state cell: defaultExpandedDepth handed to the tree viewer
  pending,        \* TRUE when a render has committed and its effect has not run yet
  threw,          \* TRUE when the effect raised a TypeError (the error boundary took over)
  original,       \* history: the schema as the parent supplied it
  lastEvent,      \* history: "mount", "setQuery", "clear" or "schema"
  branch,         \* history: which branch of the effect produced the current view
  prevBranch      \* history: the value of branch before the latest run of the effect

vars == <<heap, filteredModel, searchValue, expandDepth, pending, threw,
          original, lastEvent, branch, prevBranch>>

(***************************************************************************)
(* Bounds of the model.                                                    *)
(***************************************************************************)
\* most property nodes (at all levels together) of a schema given to the filter alone
MaxNodes == 3
\* most property nodes of a schema given to the whole view
MaxViewNodes == 2
\* most entries of a malformed top-level properties map
MaxMalformedProps == 2

(***************************************************************************)
(* JavaScript values.                                                      *)
(***************************************************************************)
Undefined == [k |-> "undefined"]
Null == [k |-> "null"]
True == [k |-> "boolean", b |-> TRUE]
Num == [k |-> "number", n |-> 5]
Str(s) == [k |-> "string", chars |-> s]
\* a list of strings
List(elems) == [k |-> "array", elems |-> elems]
\* an object used as a map
Obj(entries) == [k |-> "object", entries |-> entries]
\* an object with fields that are not among those the filter reads
Opaque == [k |-> "object", entries |-> <<>>, opaque |-> TRUE]

\* a schema node; an absent field is Undefined, an absent type is "absent"
Node(type, description, properties, items) ==
  [k |-> "object", type |-> type, description |-> description,
   properties |-> properties, items |-> items]
\* the object under `items`
Items(type, properties) == [k |-> "object", type |-> type, properties |-> properties]

\* v.f for a field f the filter reads; a primitive or a list has none of them
Prop(v, f) == IF v.k = "object" /\ f \in DOMAIN v THEN v[f] ELSE Undefined
\* v.type as the tag compared with 'object' and 'array'
TypeOf(v) == IF v.k = "object" /\ "type" \in DOMAIN v THEN v.type ELSE "absent"

\* JavaScript truthiness, as `!properties`, `value.description &&`, `value.items &&` use it
Truthy(v) ==
  CASE v.k = "undefined" -> FALSE
    [] v.k = "null" -> FALSE
    [] v.k = "string" -> v.chars # <<>>
    [] v.k = "boolean" -> v.b
    [] v.k = "number" -> v.n # 0
    [] OTHER -> TRUE

\* typeof v === 'object' for a truthy v: objects and lists
IsObjectType(v) == v.k \in {"object", "array"}

\* Object.entries(v)
Entries(v) == IF v.k = "object" /\ "entries" \in DOMAIN v THEN v.entries ELSE <<>>

\* String.prototype.includes: q occurs in s as a contiguous, case-sensitive substring
Includes(s, q) ==
  /\ Len(q) <= Len(s)
  /\ \E i \in 0..(Len(s) - Len(q)) : SubSeq(s, i + 1, i + Len(q)) = q

KeysOf(entries) == {entries[i].key : i \in 1..Len(entries)}
\* filtered.hasOwnProperty(key)
HasKey(entries, key) == key \in KeysOf(entries)
\* the value under a key that is present
ValueAt(entries, key) == entries[CHOOSE i \in 1..Len(entries) : entries[i].key = key].value

(***************************************************************************)
(* filterSchema (lines 58-101), statement by statement.                    *)
(***************************************************************************)
\* value.description.includes(searchString) for a truthy description that has an
\* `includes` method: a string (substring) or a list (membership)
DescIncludes(description, searchString) ==
  CASE description.k = "string" -> Includes(description.chars, searchString)
    [] description.k = "array" -> \E i \in 1..Len(description.elems) : description.elems[i] = searchString
    [] OTHER -> FALSE

\* line 66 raises a TypeError: the key does not match, so value.description is read,
\* and value is null or the truthy description has no `includes` method
includeThrows(key, value, searchString) ==
  /\ ~Includes(key, searchString)
  /\ \/ value.k = "null"
     \/ /\ Truthy(Prop(value, "description"))
        /\ Prop(value, "description").k \notin {"string", "array"}

\* line 71 raises a TypeError: value.type is read of null
typeThrows(value) == value.k = "null"

\* line 66 without the description (used to state a faulty variant)
directIncludeKeyOnly(key, value, searchString) == Includes(key, searchString)

\* line 66: let include = key.includes(..) || (value.description && value.description.includes(..))
directInclude(key, value, searchString) ==
  \/ Includes(key, searchString)
  \/ /\ Truthy(Prop(value, "description"))
     /\ DescIncludes(Prop(value, "description"), searchString)

\* lines 67-69 with the comparison dropped (used to state a faulty variant)
raiseDepthLast(include, currentDepth, maxDepth) ==
  IF include THEN currentDepth ELSE maxDepth

\* lines 67-69: if (include && currentDepth > maxDepth) maxDepth = currentDepth
raiseDepth(include, currentDepth, maxDepth) ==
  IF include /\ currentDepth > maxDepth THEN currentDepth ELSE maxDepth

\* line 71: value.type === 'object' && value.properties
objectBranch(value) ==
  TypeOf(value) = "object" /\ Truthy(Prop(value, "properties"))

\* line 78: value.type === 'array' && value.items && typeof value.items === 'object'
arrayBranch(value) ==
  /\ TypeOf(value) = "array"
  /\ Truthy(Prop(value, "items"))
  /\ IsObjectType(Prop(value, "items"))

\* line 75 without the spread of value (used to state a faulty variant)
objectCopyBare(value, filteredChild) ==
  Node("absent", Undefined, Obj(filteredChild), Undefined)

\* line 75: { ...value, properties: filteredChild }
objectCopy(value, filteredChild) ==
  [value EXCEPT !.properties = Obj(filteredChild)]

\* lines 82-85: { ...value, items: { ...value.items, properties: filteredChildItems } }
arrayCopy(value, filteredChildItems) ==
  [value EXCEPT !.items = [value.items EXCEPT !.properties = Obj(filteredChildItems)]]

\* an assignment that puts a new key first (used to state a faulty variant)
SetKeyFront(filtered, key, v) ==
  IF HasKey(filtered, key)
  THEN [i \in 1..Len(filtered) |-> IF filtered[i].key = key
                                   THEN [key |-> key, value |-> v] ELSE filtered[i]]
  ELSE <<[key |-> key, value |-> v]>> \o filtered

\* filtered[key] = v (lines 75, 82, 92): an own key keeps its place, a new key goes last
SetKey(filtered, key, v) ==
  IF HasKey(filtered, key)
  THEN [i \in 1..Len(filtered) |-> IF filtered[i].key = key
                                   THEN [key |-> key, value |-> v] ELSE filtered[i]]
  ELSE Append(filtered, [key |-> key, value |-> v])

\* lines 91-93 without the hasOwnProperty test (used to state a faulty variant)
placeDirectAlways(filtered, key, value, include) ==
  IF include THEN SetKey(filtered, key, value) ELSE filtered

\* lines 91-93: if (include && !filtered.hasOwnProperty(key)) filtered[key] = value
placeDirect(filtered, key, value, include) ==
  IF include /\ ~HasKey(filtered, key) THEN SetKey(filtered, key, value) ELSE filtered

RECURSIVE filterProperties(_, _, _, _)
RECURSIVE filterEntries(_, _, _, _, _)

\* lines 62-96.  maxDepth, a variable of the enclosing filterSchema in the source, is
\* threaded through; the result is [filtered, maxDepth, threw].
filterProperties(properties, currentDepth, searchString, maxDepth) ==
  IF ~Truthy(properties)
  THEN [filtered |-> <<>>, maxDepth |-> maxDepth, threw |-> FALSE]
  ELSE filterEntries(Entries(properties), 1, currentDepth, searchString,
                     [filtered |-> <<>>, maxDepth |-> maxDepth, threw |-> FALSE])

\* the for loop of lines 65-94, from entry i on
filterEntries(entries, i, currentDepth, searchString, acc) ==
  IF i > Len(entries) \/ acc.threw THEN acc
  ELSE
    LET key == entries[i].key
        value == entries[i].value
    IN
    IF includeThrows(key, value, searchString) \/ typeThrows(value)
    THEN [acc EXCEPT !.threw = TRUE]
    ELSE
      LET include == directInclude(key, value, searchString)
          depth1 == raiseDepth(include, currentDepth, acc.maxDepth)
          child ==
            IF objectBranch(value)
            THEN filterProperties(value.properties, currentDepth + 1, searchString, depth1)
            ELSE IF arrayBranch(value)
            THEN filterProperties(Prop(value.items, "properties"), currentDepth + 1,
                                  searchString, depth1)
            ELSE [filtered |-> <<>>, maxDepth |-> depth1, threw |-> FALSE]
          childMatched == child.filtered # <<>>
          filtered1 ==
            IF objectBranch(value) /\ childMatched
            THEN SetKey(acc.filtered, key, objectCopy(value, child.filtered))
            ELSE IF arrayBranch(value) /\ childMatched
            THEN SetKey(acc.filtered, key, arrayCopy(value, child.filtered))
            ELSE acc.filtered
          include1 == include \/ childMatched
      IN filterEntries(entries, i + 1, currentDepth, searchString,
                       [filtered |-> placeDirect(filtered1, key, value, include1),
                        maxDepth |-> child.maxDepth,
                        threw |-> child.threw])

\* lines 58-101: let maxDepth = 0; filterProperties(schema, 0); return both
filterSchema(schema, searchString) ==
  LET r == filterProperties(schema, 0, searchString, 0)
  IN [filteredSchema |-> r.filtered, maxDepth |-> r.maxDepth, threw |-> r.threw]

(***************************************************************************)
(* The inputs: schemas and queries.                                        *)
(***************************************************************************)
\* characters of the keys, descriptions and queries
cab == <<"c", "a", "b">>
Ab == <<"A", "b">>
ab == <<"a", "b">>

\* a property without nested properties: a string, or a list of strings
LeafNode(kind, description) ==
  IF kind = "string"
  THEN Node("string", description, Undefined, Undefined)
  ELSE Node("array", description, Undefined, Items("string", Undefined))

\* a property with nested properties: an object, a list of objects, or an object
\* schema that leaves `type` out
ContainerNode(kind, description, map) ==
  CASE kind = "object" -> Node("object", description, Obj(map), Undefined)
    [] kind = "array" -> Node("array", description, Undefined, Items("object", Obj(map)))
    [] OTHER -> Node("absent", description, Obj(map), Undefined)

\* the property nodes made of exactly n nodes, the node itself included, given
\* smaller[j + 1], the properties maps made of exactly j nodes, for j < n
NodesOfSize(n, smaller, descs, leaves, containers) ==
  IF n = 1
  THEN {LeafNode(l, d) : l \in leaves, d \in descs}
  ELSE {ContainerNode(c, d, m) : c \in containers, d \in descs, m \in smaller[n]}

\* s \cup t.  The sizes are taken first: that puts both sets in sorted form, and
\* joining sorted sets is fast.
Join(s, t) ==
  CHOOSE u \in {IF Cardinality(a) + Cardinality(b) >= 0 THEN a \cup b ELSE {} :
                  a \in {s}, b \in {t}} : TRUE

RECURSIVE MapsOfSize(_, _, _, _, _, _, _)
\* the properties maps made of exactly n nodes (n >= 1), at all levels together, whose
\* first entry is made of i nodes or more, given smaller as above; keys are distinct
\* among siblings and come in every order
MapsOfSize(n, i, smaller, keys, descs, leaves, containers) ==
  IF i > n THEN {}
  ELSE Join({m \in {<<[key |-> key, value |-> v]>> \o rest :
                       key \in keys,
                       v \in NodesOfSize(i, smaller, descs, leaves, containers),
                       rest \in smaller[n - i + 1]} :
               m[1].key \notin KeysOf(Tail(m))},
            MapsOfSize(n, i + 1, smaller, keys, descs, leaves, containers))

RECURSIVE MapsBySize(_, _, _, _, _)
\* <<M0, .., Mn>>: Mj is the set of the properties maps made of exactly j nodes
MapsBySize(n, keys, descs, leaves, containers) ==
  IF n = 0 THEN <<{<<>>}>>
  ELSE CHOOSE table \in
         {Append(smaller, MapsOfSize(n, 1, smaller, keys, descs, leaves, containers)) :
            smaller \in {MapsBySize(n - 1, keys, descs, leaves, containers)}} : TRUE

RECURSIVE JoinAll(_, _)
\* sized[1] \cup .. \cup sized[j]
JoinAll(sized, j) == IF j = 0 THEN {} ELSE Join(JoinAll(sized, j - 1), sized[j])

\* the properties maps made of at most n nodes
MapsOver(n, keys, descs, leaves, containers) ==
  JoinAll(MapsBySize(n, keys, descs, leaves, containers), n + 1)

\* the top-level schema whose `properties` is the map, and one without `properties`
Schema(map) == Node("object", Undefined, Obj(map), Undefined)
NoProperties == Node("string", Undefined, Undefined, Undefined)

FilterSchemas ==
  {Schema(m) : m \in MapsOver(MaxNodes, {cab, Ab}, {Undefined, Str(ab)},
                              {"string", "strings"}, {"object", "array", "untyped"})}
  \cup {NoProperties}

ViewSchemas ==
  {Schema(m) : m \in MapsOver(MaxViewNodes, {cab, Ab}, {Undefined},
                              {"string"}, {"object", "untyped"})}
  \cup {NoProperties}

\* queries typed into the search box
FilterQueries == {<<"a">>, ab, Ab}
ViewQueries == {<<>>, <<"a">>, ab, Ab}

(***************************************************************************)
(* The component: state cells, event handlers and the effect.              *)
(***************************************************************************)
\* line 47: React.useState<number>(2), and line 109: setExpandDepth(2)
DefaultExpandDepth == 2

RECURSIVE JSONClone(_)
\* line 103: JSON.parse(JSON.stringify(v)) rebuilds every object field by field; a
\* field that is undefined is left out and so stays absent
JSONClone(v) ==
  IF v.k # "object" THEN v
  ELSE [f \in DOMAIN v |->
          CASE f \in {"description", "properties", "items"} -> JSONClone(v[f])
            [] f = "entries" ->
                 [i \in 1..Len(v.entries) |->
                    [key |-> v.entries[i].key, value |-> JSONClone(v.entries[i].value)]]
            [] OTHER -> v[f]]

\* line 103 without the copy: originalData is the source object itself (used to
\* state a faulty variant)
originalDataAliased == "src"

\* line 103: originalData names the object that JSON.parse has just made
originalData == "copy"

\* line 104 with the threshold off by one (used to state a faulty variant)
shouldFilterNonEmpty(query) == Len(query) > 0

\* line 104: searchValue && searchValue.length > 1
shouldFilter(query) == query # <<>> /\ Len(query) > 1

\* lines 36-47: the first render
Init ==
  /\ original \in ViewSchemas
  /\ heap = [src |-> original, copy |-> Undefined]
  /\ filteredModel = "src"
  /\ searchValue = <<>>
  /\ expandDepth = DefaultExpandDepth
  /\ pending = TRUE
  /\ threw = FALSE
  /\ lastEvent = "mount"
  /\ branch = "initial"
  /\ prevBranch = "initial"

\* lines 57-113 with the else branch leaving expandDepth alone (used to state a
\* faulty variant)
RecomputeKeepDepth ==
  /\ pending /\ ~threw
  /\ LET h1 == [heap EXCEPT ![originalData] = JSONClone(heap["src"])]
     IN IF shouldFilter(searchValue)
        THEN LET r == filterSchema(Prop(h1[originalData], "properties"), searchValue)
             IN /\ heap' = [h1 EXCEPT ![originalData].properties = Obj(r.filteredSchema)]
                /\ expandDepth' = r.maxDepth
                /\ branch' = "filter"
        ELSE /\ heap' = h1
             /\ expandDepth' = expandDepth
             /\ branch' = "bypass"
  /\ filteredModel' = originalData
  /\ prevBranch' = branch
  /\ pending' = FALSE
  /\ UNCHANGED <<searchValue, threw, original, lastEvent>>

\* lines 57-113: the effect, run once after each render whose searchValue or data
\* differs from the render before.  A TypeError raised by filterSchema leaves the
\* three cells as they were (the copy made at line 103 is then unreachable).
Recompute ==
  /\ pending /\ ~threw
  /\ LET h1 == [heap EXCEPT ![originalData] = JSONClone(heap["src"])]
     IN IF shouldFilter(searchValue)
        THEN LET r == filterSchema(Prop(h1[originalData], "properties"), searchValue)
             IN IF r.threw
                THEN /\ threw' = TRUE
                     /\ UNCHANGED <<heap, filteredModel, expandDepth, branch, prevBranch>>
                ELSE /\ heap' = [h1 EXCEPT ![originalData].properties = Obj(r.filteredSchema)]
                     /\ expandDepth' = r.maxDepth
                     /\ filteredModel' = originalData
                     /\ branch' = "filter"
                     /\ prevBranch' = branch
                     /\ threw' = FALSE
        ELSE /\ heap' = h1
             /\ expandDepth' = DefaultExpandDepth
             /\ filteredModel' = originalData
             /\ branch' = "bypass"
             /\ prevBranch' = branch
             /\ threw' = FALSE
  /\ pending' = FALSE
  /\ UNCHANGED <<searchValue, original, lastEvent>>

\* line 166: onChange={e => setSearchValue(e.currentTarget.value)}; a value equal to
\* the current one re-renders nothing and schedules no effect
setSearchValue(query) ==
  /\ ~pending /\ ~threw
  /\ searchValue' = query
  /\ pending' = (query # searchValue)
  /\ lastEvent' = "setQuery"
  /\ UNCHANGED <<heap, filteredModel, expandDepth, threw, original, branch, prevBranch>>

\* line 168: onClick={() => setSearchValue('')}
clear ==
  /\ ~pending /\ ~threw
  /\ searchValue' = <<>>
  /\ pending' = (searchValue # <<>>)
  /\ lastEvent' = "clear"
  /\ UNCHANGED <<heap, filteredModel, expandDepth, threw, original, branch, prevBranch>>

\* the data prop changes and the effect is not told (used to state a faulty variant)
dataChangeNoEffect ==
  /\ ~pending /\ ~threw
  /\ \E s \in ViewSchemas :
       /\ heap' = [heap EXCEPT !["src"] = s]
       /\ original' = s
  /\ pending' = FALSE
  /\ lastEvent' = "schema"
  /\ UNCHANGED <<filteredModel, searchValue, expandDepth, threw, branch, prevBranch>>

\* lines 37, 44 and 113: the parent passes another data object; `data` is among the
\* effect's dependencies, so the effect runs again with the current searchValue
dataChange ==
  /\ ~pending /\ ~threw
  /\ \E s \in ViewSchemas :
       /\ heap' = [heap EXCEPT !["src"] = s]
       /\ original' = s
  /\ pending' = TRUE
  /\ lastEvent' = "schema"
  /\ UNCHANGED <<filteredModel, searchValue, expandDepth, threw, branch, prevBranch>>

Next ==
  \/ \E query \in ViewQueries : setSearchValue(query)
  \/ clear
  \/ dataChange
  \/ Recompute

Spec == Init /\ [][Next]_vars

\* The filter alone: the component has mounted on any schema, its first effect has
\* run, and any query has just been typed; the effect is about to run on them.
InitTyped(schemas) ==
  /\ original \in schemas
  /\ heap = [src |-> original, copy |-> JSONClone(original)]
  /\ filteredModel = "copy"
  /\ searchValue \in FilterQueries
  /\ expandDepth = DefaultExpandDepth
  /\ pending = TRUE
  /\ threw = FALSE
  /\ lastEvent = "setQuery"
  /\ branch = "bypass"
  /\ prevBranch = "initial"

InitFilter == InitTyped(FilterSchemas)

NextFilter == Recompute

SpecFilter == InitFilter /\ [][NextFilter]_vars

\* Malformed input: values of odd shape where the filter expects a schema node
MalformedValues ==
  { Null, Str(cab), Num, True,
    Node("string", Num, Undefined, Undefined),
    Node("string", True, Undefined, Undefined),
    Node("string", Opaque, Undefined, Undefined),
    Node("string", List(<<ab>>), Undefined, Undefined),
    Node("string", List(<<cab>>), Undefined, Undefined),
    Node("array", Undefined, Undefined, Null),
    Node("array", Undefined, Undefined, True),
    Node("array", Undefined, Undefined, List(<<cab>>)),
    Node("array", Undefined, Undefined, Items("object", Undefined)),
    Node("array", Undefined, Undefined, Items("object", Null)),
    Node("object", Undefined, Undefined, Undefined),
    Node("object", Undefined, Null, Undefined),
    Node("object", Undefined, Obj(<<[key |-> cab, value |-> Null]>>), Undefined),
    Node("object", Undefined, Obj(<<[key |-> cab, value |-> Str(ab)]>>), Undefined) }

RECURSIVE MalformedMaps(_)
\* the maps of at most n entries, with distinct keys, of malformed values
MalformedMaps(n) ==
  IF n = 0 THEN {<<>>}
  ELSE {<<>>} \cup
       {m \in {<<[key |-> key, value |-> v]>> \o rest :
                  key \in {cab, Ab}, v \in MalformedValues, rest \in MalformedMaps(n - 1)} :
          m[1].key \notin KeysOf(Tail(m))}

MalformedSchemas ==
  {Node("object", Undefined, p, Undefined) :
     p \in {Undefined, Null} \cup {Obj(m) : m \in MalformedMaps(MaxMalformedProps)}}

InitMalformed == InitTyped(MalformedSchemas)

NextMalformed == Recompute

SpecMalformed == InitMalformed /\ [][NextMalformed]_vars

(***************************************************************************)
(* What the claims speak of.                                               *)
(***************************************************************************)
\* the schema the tree viewer is given, and its top-level properties
view == heap[filteredModel]
shown == Entries(Prop(view, "properties"))
\* the top-level properties of the schema the parent supplied
given == Entries(Prop(original, "properties"))
\* the effect of the latest render has run to its end
settled == ~pending /\ ~threw
\* ... and it took the filtering branch
Filtered == settled /\ Len(searchValue) > 1

\* a direct match: the name contains q, or there is a description (a string) that
\* contains q
DirectMatch(key, node, q) ==
  \/ Includes(key, q)
  \/ /\ Prop(node, "description").k = "string"
     /\ Includes(Prop(node, "description").chars, q)

\* the nested properties of a node, whatever its `type`: `properties`, or else
\* `items.properties`
NestedMap(node) ==
  IF Prop(node, "properties").k = "object" THEN Entries(Prop(node, "properties"))
  ELSE IF Prop(Prop(node, "items"), "properties").k = "object"
  THEN Entries(Prop(Prop(node, "items"), "properties"))
  ELSE <<>>

\* the nested properties of a node of type "object" (`properties`) or of type
\* "array" (`items.properties`); none for a node of another type or of no type
TypedNestedMap(node) ==
  IF TypeOf(node) = "object" /\ Prop(node, "properties").k = "object"
  THEN Entries(Prop(node, "properties"))
  ELSE IF TypeOf(node) = "array" /\ Prop(Prop(node, "items"), "properties").k = "object"
  THEN Entries(Prop(Prop(node, "items"), "properties"))
  ELSE <<>>

Nested(node, typed) == IF typed THEN TypedNestedMap(node) ELSE NestedMap(node)

RECURSIVE SomeMatch(_, _, _)
\* some property of the map, or some descendant of one, directly matches
SomeMatch(entries, q, typed) ==
  \E i \in 1..Len(entries) :
    \/ DirectMatch(entries[i].key, entries[i].value, q)
    \/ SomeMatch(Nested(entries[i].value, typed), q, typed)

Max(S) == CHOOSE x \in S : \A y \in S : y <= x

RECURSIVE DeepestMatch(_, _, _, _)
\* the greatest depth of a direct match in the map (whose own properties are at
\* `depth`) and below; 0 when there is none
DeepestMatch(entries, depth, q, typed) ==
  Max({0} \cup {IF DirectMatch(entries[i].key, entries[i].value, q) THEN depth ELSE 0 :
                  i \in 1..Len(entries)}
          \cup {DeepestMatch(Nested(entries[i].value, typed), depth + 1, q, typed) :
                  i \in 1..Len(entries)})

\* the properties of the map that appear in the filtered map
Retained(out, entries) == {i \in 1..Len(entries) : entries[i].key \in KeysOf(out)}

IndexOf(entries, key) == CHOOSE i \in 1..Len(entries) : entries[i].key = key
\* a container node with its nested properties replaced by the map m
WithNested(node, m) ==
  IF TypeOf(node) = "object"
  THEN [node EXCEPT !.properties = Obj(m)]
  ELSE [node EXCEPT !.items = [node.items EXCEPT !.properties = Obj(m)]]

\* the keys of the map whose property matches directly or through a descendant
MatchingKeys(entries, q, typed) ==
  {entries[i].key : i \in {j \in 1..Len(entries) :
      \/ DirectMatch(entries[j].key, entries[j].value, q)
      \/ SomeMatch(Nested(entries[j].value, typed), q, typed)}}

(***************************************************************************)
(* The claims.                                                             *)
(***************************************************************************)

\* C1, as stated: after filtering with a query longer than one character, every key
\* shown is a key of P, and a property of P is shown if and only if it directly
\* matches or some descendant, reached through `properties` or `items.properties` of
\* a node of any type, directly matches.
C1_Original ==
  Filtered =>
    /\ KeysOf(shown) \subseteq KeysOf(given)
    /\ KeysOf(shown) = MatchingKeys(given, searchValue, FALSE)

\* C1, amended: the same, with descendants counted only below the containers the
\* filter descends into: `properties` of a property whose type is "object" and
\* `items.properties` of a property whose type is "array".
C1_Amended ==
  Filtered =>
    /\ KeysOf(shown) \subseteq KeysOf(given)
    /\ KeysOf(shown) = MatchingKeys(given, searchValue, TRUE)

\* a property that does not match itself is shown because of a descendant, and one
\* of its nested properties has been filtered out
C1_Witness ==
  /\ Filtered
  /\ \E i \in 1..Len(shown) :
       /\ ~DirectMatch(shown[i].key, shown[i].value, searchValue)
       /\ Len(TypedNestedMap(shown[i].value))
            < Len(TypedNestedMap(ValueAt(given, shown[i].key)))

\* C2: once the effect has run on a query of length 0 or 1, the model shown equals
\* the schema supplied and expandDepth is 2, whatever they were before.
C2_Bypass ==
  (settled /\ Len(searchValue) <= 1) => (view = original /\ expandDepth = 2)

\* a one-character query typed over a filtered view, and the effect has run
C2_Witness ==
  /\ settled
  /\ Len(searchValue) = 1
  /\ lastEvent = "setQuery"
  /\ prevBranch = "filter"
  /\ branch = "bypass"

\* C3, as stated: maxDepth is the greatest depth of a direct match, depths counted
\* through `properties` and `items.properties` of a node of any type; it is 0, and
\* the filtered map empty, when nothing matches.
C3_Original ==
  Filtered =>
    /\ expandDepth = DeepestMatch(given, 0, searchValue, FALSE)
    /\ ~SomeMatch(given, searchValue, FALSE) => (shown = <<>> /\ expandDepth = 0)

\* C3, amended: the same, with depths counted only through `properties` of a
\* property whose type is "object" and `items.properties` of one whose type is "array".
C3_Amended ==
  Filtered =>
    /\ expandDepth = DeepestMatch(given, 0, searchValue, TRUE)
    /\ ~SomeMatch(given, searchValue, TRUE) => (shown = <<>> /\ expandDepth = 0)

\* the deepest match is two levels down, below a top-level property that does not
\* match itself
C3_Witness ==
  /\ Filtered
  /\ expandDepth = 2
  /\ \E i \in 1..Len(shown) : ~DirectMatch(shown[i].key, shown[i].value, searchValue)

\* C4: filtering the filtered map again with the same query gives the same map, at
\* every level, and the same maxDepth.
C4_Idempotent ==
  Filtered =>
    filterSchema(Prop(view, "properties"), searchValue)
      = [filteredSchema |-> shown, maxDepth |-> expandDepth, threw |-> FALSE]

\* the first pass removed something, kept something, and found a nested match
C4_Witness ==
  /\ Filtered
  /\ shown # <<>>
  /\ view # original
  /\ expandDepth >= 1

RECURSIVE KeepsOrder(_, _)
\* the keys of out are keys of orig in the order they have in orig, at every level
KeepsOrder(out, orig) ==
  /\ KeysOf(out) \subseteq KeysOf(orig)
  /\ \A i, j \in 1..Len(out) :
       i < j => IndexOf(orig, out[i].key) < IndexOf(orig, out[j].key)
  /\ \A i \in 1..Len(out) :
       KeepsOrder(NestedMap(out[i].value), NestedMap(ValueAt(orig, out[i].key)))

\* C5: at every level the keys shown come in the order they have in the schema
\* supplied, whichever branch placed them.
C5_OrderPreserved == settled => KeepsOrder(shown, given)

\* a property placed by the container branch (it does not match itself) beside one
\* placed by the direct-match branch
C5_Witness ==
  /\ Filtered
  /\ \E i, j \in 1..Len(shown) :
       /\ i # j
       /\ ~DirectMatch(shown[i].key, shown[i].value, searchValue)
       /\ TypedNestedMap(shown[i].value) # <<>>
       /\ DirectMatch(shown[j].key, shown[j].value, searchValue)
       /\ TypedNestedMap(shown[j].value) = <<>>

\* C6: once the effect has run after clear(), the model shown equals the schema
\* supplied and expandDepth is 2.
C6_ClearRestores ==
  (settled /\ lastEvent = "clear") => (view = original /\ expandDepth = 2)

\* clear() was pressed on a filtered view, and the effect has run
C6_Witness ==
  /\ settled
  /\ lastEvent = "clear"
  /\ prevBranch = "filter"
  /\ branch = "bypass"

\* C7: the object behind the data prop always holds the schema as it was supplied,
\* and what the effect stores is never that object.
C7_SourceUntouched ==
  /\ heap["src"] = original
  /\ settled => filteredModel # "src"

\* the effect has replaced the top-level `properties` of its copy by a smaller map
C7_Witness ==
  /\ Filtered
  /\ Len(shown) < Len(given)

\* what the effect computes for a schema and a query from scratch
FromScratch(schema, q) ==
  IF Len(q) > 1
  THEN LET r == filterSchema(Prop(schema, "properties"), q)
       IN [model |-> [schema EXCEPT !.properties = Obj(r.filteredSchema)],
           depth |-> r.maxDepth]
  ELSE [model |-> schema, depth |-> 2]

\* C8: at the first render, and whenever the effect of the latest event has run, the
\* model shown and expandDepth are what the current schema and the current query
\* give from scratch.
C8_NoHiddenState ==
  (settled \/ lastEvent = "mount") =>
    [model |-> view, depth |-> expandDepth] = FromScratch(original, searchValue)

\* the schema changed under a filtering query, over a filtered view, and the effect
\* has run
C8_Witness ==
  /\ Filtered
  /\ lastEvent = "schema"
  /\ prevBranch = "filter"
  /\ view # original

RECURSIVE ShapeKept(_, _, _)
\* every object or array property of out has the shape the claim gives it, at every
\* level
ShapeKept(out, orig, q) ==
  \A i \in 1..Len(out) :
    LET node == ValueAt(orig, out[i].key)
        kids == TypedNestedMap(node)
        kept == TypedNestedMap(out[i].value)
    IN TypeOf(node) \in {"object", "array"} =>
         IF SomeMatch(kids, q, TRUE)
         THEN /\ kept # <<>>
              /\ out[i].value = WithNested(node, kept)
              /\ KeysOf(kept) = MatchingKeys(kids, q, TRUE)
              /\ ShapeKept(kept, kids, q)
         ELSE out[i].value = node

\* C9: a retained object or array property with a retained descendant is the node
\* with only its nested properties replaced by the non-empty filtered subset, also
\* when it matches itself; one that matches itself and has no retained descendant is
\* the node as it was.
C9_ContainerShape == Filtered => ShapeKept(shown, given, searchValue)

\* a container that matches itself is shown with its filtered nested properties, and
\* among them is a container that matches itself and keeps nested properties none of
\* which matches
C9_Witness ==
  /\ Filtered
  /\ \E i \in 1..Len(shown) :
       /\ DirectMatch(shown[i].key, shown[i].value, searchValue)
       /\ \E j \in 1..Len(TypedNestedMap(shown[i].value)) :
            LET inner == TypedNestedMap(shown[i].value)[j]
            IN /\ DirectMatch(inner.key, inner.value, searchValue)
               /\ TypedNestedMap(inner.value) # <<>>
               /\ ~SomeMatch(TypedNestedMap(inner.value), searchValue, TRUE)

\* C10: on a malformed schema and a query longer than one character the effect
\* raises no error, and the malformed parts count as no match: whatever is shown
\* matches by its name, by a description that is a string, or through a descendant.
C10_Tolerated ==
  /\ ~threw
  /\ Filtered => KeysOf(shown) = MatchingKeys(given, searchValue, TRUE)

====
